---- MODULE Spec2Model ----
(***************************************************************************)
(* latexd.py: compile one LaTeX document in a temporary build directory    *)
(* assembled from several supporting directories.                          *)
(*                                                                         *)
(* File names are sequences of tokens: "." is the dot character, every     *)
(* other token is a dot-free run of characters ("p", "tex", "pdf",         *)
(* "_build").  The token set is uniquely decodable, so two names are equal *)
(* as Python strings exactly when they are equal as sequences.             *)
(***************************************************************************)
EXTENDS Integers, Sequences, FiniteSets, TLC

\* ---------------------------------------------------------------- bounds
MaxNameLen  == 5    \* tokens in a file name of the name family
MaxDocFiles == 1    \* files in the document's directory (name family)
MaxExtras   == 2    \* number of -e/--extras flags
MaxFrags    == 1    \* colon-separated fragments in TEXDINPUTS

\* ----------------------------------------------------- strings and names
Dot      == "."
Words    == {"p", "tex"}
TexExt   == <<".", "tex">>
PdfExt   == <<".", "pdf">>
BuildTag == <<"_build">>

\* index of the last "." of a name, 0 when there is none (str.rfind + 1)
RECURSIVE rfind(_, _)
rfind(name, i) ==
  IF i = 0 THEN 0
  ELSE IF name[i] = Dot THEN i ELSE rfind(name, i - 1)

endswith_dot(name) == Len(name) > 0 /\ name[Len(name)] = Dot

\* str.rstrip('.')
RECURSIVE rstrip_dots(_)
rstrip_dots(name) ==
  IF endswith_dot(name) THEN rstrip_dots(SubSeq(name, 1, Len(name) - 1))
  ELSE name

\* PurePath.suffix: the part from the last dot on, unless that dot is the
\* first or the last character of the name
suffix(name) ==
  LET j == rfind(name, Len(name))
  IN  IF j > 1 /\ j < Len(name) THEN SubSeq(name, j, Len(name)) ELSE <<>>

\* a stem cut at the FIRST dot (name.split(".")[0]) instead of the last
stem_first_dot(name) ==
  LET S == {k \in 1..Len(name) : name[k] = Dot}
  IN  IF S = {} THEN name
      ELSE SubSeq(name, 1, (CHOOSE k \in S : \A m \in S : k <= m) - 1)

\* PurePath.stem
stem(name) ==
  LET j == rfind(name, Len(name))
  IN  IF j > 1 /\ j < Len(name) THEN SubSeq(name, 1, j - 1) ELSE name

\* PurePath.with_suffix: replaces the current suffix when there is one
with_suffix(name, ext) ==
  LET old == suffix(name)
  IN  IF old = <<>> THEN name \o ext
      ELSE SubSeq(name, 1, Len(name) - Len(old)) \o ext

\* str.rsplit(".", 1)[0]
rsplit1(name) ==
  LET j == rfind(name, Len(name))
  IN  IF j = 0 THEN name ELSE SubSeq(name, 1, j - 1)

\* ------------------------------------------------------------ file system
\* Directories.  tree[d] is the parent of d ("/" for a top-level directory)
\* or "none" when d does not exist on disk.  T is the directory of the
\* document; fs[d] is the set of regular files of d.
DocDir == "T"
Dirs   == {"T", "A", "B"}

VARIABLES tex, extras, texdinputs, copy_extras, preview,  \* the invocation
          fs, tree,                                         \* the disk
          pc, tex_path, extras_dirs, texdinputs_dirs,
          tmpdir, made, scratch, idx, todo, filenames_seen, warnings,
          jobname, result, build_out, output_pdf, final_pdf,
          viewer, report

inputs == <<tex, extras, texdinputs, copy_extras, preview, tree>>
vars == <<tex, extras, texdinputs, copy_extras, preview, fs, tree,
          pc, tex_path, extras_dirs, texdinputs_dirs,
          tmpdir, made, scratch, idx, todo, filenames_seen, warnings,
          jobname, result, build_out, output_pdf, final_pdf,
          viewer, report>>

is_dir(d)    == tree[d] # "none"
Children(d)  == {c \in Dirs : tree[c] = d}
\* Path.glob("*"): the regular files and the subdirectories of d
Entries(d)   == fs[d] \cup {<<c>> : c \in Children(d)}
IsSubdir(e)  == \E c \in Dirs : e = <<c>>

\* A path value.  kind is the Python type ("Path" or "str"); canon tells
\* whether the text is the resolved absolute form of the directory.  Two
\* values are equal in Python exactly when the records are equal: a str
\* never equals a Path.
PathOf(d)       == [kind |-> "Path", dir |-> d, canon |-> TRUE]
StrOf(d, canon) == [kind |-> "str",  dir |-> d, canon |-> canon]
\* Path(x).resolve()
resolve(x) == PathOf(x.dir)

Perms(S) == {q \in [1..Cardinality(S) -> S] :
               \A i, j \in 1..Cardinality(S) : i # j => q[i] # q[j]}

\* os.walk(base), top-down: the subdirectories of a directory in listing
\* order (any order), then the walk of each of them in that order.  Each
\* is os.path.join(root, directory): a str spelled like the base.
RECURSIVE walk(_, _), walk_each(_, _)
walk(d, canon) ==
  UNION { { [i \in 1..Len(L) |-> StrOf(L[i], canon)] \o r : r \in walk_each(L, canon) }
          : L \in Perms(Children(d)) }
walk_each(L, canon) ==
  IF L = <<>> THEN {<<>>}
  ELSE { a \o b : a \in walk(Head(L), canon), b \in walk_each(Tail(L), canon) }

EmptyFrag == [dir |-> "", canon |-> TRUE, rec |-> FALSE]

parse_fragment(f) ==
  IF f.rec
  THEN IF is_dir(f.dir)
       THEN { w \o <<PathOf(f.dir)>> : w \in walk(f.dir, f.canon) }
       ELSE {<<>>}
  ELSE IF is_dir(f.dir) THEN {<<PathOf(f.dir)>>} ELSE {<<>>}

\* parse_paths: the set of lists it can return (one per listing order)
RECURSIVE parse_each(_)
parse_each(paths) ==
  IF paths = <<>> THEN {<<>>}
  ELSE { a \o b : a \in parse_fragment(Head(paths)), b \in parse_each(Tail(paths)) }

parse_paths(path_string) ==
  IF path_string = <<>> THEN {<<>>}
  ELSE parse_each(SelectSeq(path_string, LAMBDA f : f # EmptyFrag))

find_texdinputs == IF texdinputs = <<>> THEN {<<>>} ELSE parse_paths(texdinputs)

\* ------------------------------------------------------------------ inputs
Tokens == Words \cup {Dot}
\* names whose word tokens are maximal dot-free runs; "." and ".." are not
\* file names
Names ==
  { n \in UNION { [1..m -> Tokens] : m \in 1..MaxNameLen } :
      /\ \A i \in 1..(Len(n) - 1) : n[i] = Dot \/ n[i + 1] = Dot
      /\ n \notin {<<Dot>>, <<Dot, Dot>>} }

RECURSIVE SubsetsUpTo(_, _)
SubsetsUpTo(S, k) ==
  IF k = 0 THEN {{}}
  ELSE LET R == SubsetsUpTo(S, k - 1) IN R \cup { r \cup {x} : r \in R, x \in S }

SeqsUpTo(S, k) == UNION { [1..m -> S] : m \in 0..k }

MainName     == <<"p", ".", "tex">>
SupportNames == {MainName, <<"p">>}

RECURSIVE Rooted(_, _, _)
Rooted(t, d, k) ==
  \/ t[d] \in {"/", "none"}
  \/ k > 0 /\ t[d] \in Dirs /\ Rooted(t, t[d], k - 1)

\* every layout of the directories: the document's directory exists, a
\* directory lies in an existing directory, and there is no cycle
Trees ==
  { t \in [Dirs -> {"none", "/"} \cup Dirs] :
      /\ t[DocDir] = "/"
      /\ \A d \in Dirs : t[d] \in Dirs => t[t[d]] # "none"
      /\ \A d \in Dirs : Rooted(t, d, Cardinality(Dirs)) }
FlatTrees == { t \in Trees : t["A"] # DocDir /\ t["B"] # DocDir }

Spellings == [dir : Dirs, canon : BOOLEAN]
Fragments == [dir : Dirs, canon : BOOLEAN, rec : BOOLEAN] \cup {EmptyFrag}

InitProgram ==
  /\ pc = "start"
  /\ tex_path = <<>>
  /\ extras_dirs = <<>>
  /\ texdinputs_dirs = <<>>
  /\ tmpdir = FALSE
  /\ made = FALSE
  /\ scratch = <<>>
  /\ idx = 0
  /\ todo = {}
  /\ filenames_seen = <<>>
  /\ warnings = [notdir |-> {}, dup |-> <<>>]
  /\ jobname = <<>>
  /\ result = "unset"
  /\ build_out = {}
  /\ output_pdf = <<>>
  /\ final_pdf = <<>>
  /\ viewer = FALSE
  /\ report = {}

\* name family: any document name against any small document directory
InitNames ==
  /\ tex \in Names
  /\ \E S \in SubsetsUpTo(Names, MaxDocFiles) :
       fs = [d \in Dirs |-> IF d = DocDir THEN S ELSE {}]
  /\ tree = [d \in Dirs |-> IF d = DocDir THEN "/" ELSE "none"]
  /\ extras = <<>>
  /\ texdinputs = <<>>
  /\ copy_extras = FALSE
  /\ preview = FALSE

\* content family: supporting directories with overlapping contents
InitDirs ==
  /\ tex = MainName
  /\ tree \in FlatTrees
  /\ fs \in [Dirs -> SUBSET SupportNames]
  /\ MainName \in fs[DocDir]
  /\ \A d \in Dirs : tree[d] = "none" => fs[d] = {}
  /\ extras \in SeqsUpTo({sp \in Spellings : sp.canon}, MaxExtras)
  /\ texdinputs = <<>>
  /\ copy_extras \in BOOLEAN
  /\ preview \in BOOLEAN

\* path family: any directory layout, any spelling of the directory lists
InitPaths ==
  /\ tex = MainName
  /\ tree \in Trees
  /\ fs = [d \in Dirs |-> IF d = DocDir THEN {MainName} ELSE {}]
  /\ extras \in SeqsUpTo(Spellings, MaxExtras)
  /\ texdinputs \in SeqsUpTo(Fragments, MaxFrags)
  /\ copy_extras = FALSE
  /\ preview = FALSE

Init == InitProgram /\ (InitNames \/ InitDirs \/ InitPaths)

\* --------------------------------------------------------- run_latex_build
Range(q) == {q[i] : i \in DOMAIN q}

\* Path.exists() of a name in the document's directory
exists(name) == name \in Entries(DocDir)

\* line 242 with the extension test dropped
accepts_any_existing(name) == exists(name)

\* line 242: the document is accepted when it exists and has suffix .tex
accepts(name) == exists(name) /\ suffix(name) = TexExt

\* lines 228-243.  raised: with_name() rejects the empty name left when
\* the name was nothing but dots.
resolve_tex(name) ==
  LET strip == ~exists(name) /\ endswith_dot(name)
      p1    == IF strip THEN rstrip_dots(name) ELSE name
      p2    == IF ~exists(p1) /\ suffix(p1) # TexExt
               THEN with_suffix(p1, TexExt) ELSE p1
  IN  IF strip /\ p1 = <<>>
      THEN [ok |-> FALSE, path |-> <<>>]
      ELSE [ok |-> accepts(p2), path |-> p2]

ResolveInput ==
  /\ pc = "start"
  /\ LET r == resolve_tex(tex)
     IN  /\ tex_path' = r.path
         /\ pc' = IF r.ok THEN "extras" ELSE "input_error"
  /\ UNCHANGED <<inputs, fs, extras_dirs, texdinputs_dirs, tmpdir, made,
                 scratch, idx, todo, filenames_seen, warnings, jobname,
                 result, build_out, output_pdf, final_pdf, viewer, report>>

\* lines 247-249
insert_tex_dir(ds) ==
  IF PathOf(DocDir) \in Range(ds) THEN ds ELSE <<PathOf(DocDir)>> \o ds

\* lines 254-257
RECURSIVE append_missing(_, _)
append_missing(ds, tds) ==
  IF tds = <<>> THEN ds
  ELSE append_missing(IF Head(tds) \in Range(ds) THEN ds ELSE Append(ds, Head(tds)),
                      Tail(tds))

\* lines 245-257
ComputeExtras ==
  /\ pc = "extras"
  /\ \E tds \in find_texdinputs :
       /\ texdinputs_dirs' = tds
       /\ extras_dirs' =
            append_missing(insert_tex_dir([i \in DOMAIN extras |-> resolve(extras[i])]), tds)
  /\ pc' = "mkdtemp"
  /\ UNCHANGED <<inputs, fs, tex_path, tmpdir, made, scratch, idx, todo,
                 filenames_seen, warnings, jobname, result, build_out,
                 output_pdf, final_pdf, viewer, report>>

\* ------------------------------------------------- prepare_build_directory
Put(f, k, v) == [x \in DOMAIN f \cup {k} |-> IF x = k THEN v ELSE f[x]]

\* lines 122-127: mkdtemp, then the link to the document
MakeTmpdir ==
  /\ pc = "mkdtemp"
  /\ tmpdir' = TRUE
  /\ made' = TRUE
  /\ filenames_seen' = <<>>
  /\ scratch' = Put(<<>>, tex_path, [dir |-> DocDir, how |-> "link"])
  /\ idx' = 1
  /\ pc' = "dirloop"
  /\ UNCHANGED <<inputs, fs, tex_path, extras_dirs, texdinputs_dirs, todo,
                 warnings, jobname, result, build_out, output_pdf, final_pdf,
                 viewer, report>>

\* lines 130-134: the next supporting directory.  A str has no is_dir():
\* AttributeError.
NextDir ==
  /\ pc = "dirloop"
  /\ idx <= Len(extras_dirs)
  /\ LET extras_dir == extras_dirs[idx]
     IN  IF extras_dir.kind = "str"
         THEN /\ pc' = "raised"
              /\ UNCHANGED <<idx, todo, warnings>>
         ELSE IF ~is_dir(extras_dir.dir)
         THEN /\ warnings' = [warnings EXCEPT !.notdir = @ \cup {extras_dir.dir}]
              /\ idx' = idx + 1
              /\ UNCHANGED <<pc, todo>>
         ELSE IF Entries(extras_dir.dir) = {}
         THEN /\ idx' = idx + 1
              /\ UNCHANGED <<pc, todo, warnings>>
         ELSE /\ todo' = Entries(extras_dir.dir)
              /\ pc' = "entries"
              /\ UNCHANGED <<idx, warnings>>
  /\ UNCHANGED <<inputs, fs, tex_path, extras_dirs, texdinputs_dirs, tmpdir,
                 made, scratch, filenames_seen, jobname, result, build_out,
                 output_pdf, final_pdf, viewer, report>>

\* line 139 with the test dropped: every entry is placed over what is there
dest_exists_never(name) == FALSE

\* line 139 with the test inverted: only names already present are "new"
dest_exists_inverted(name) == name \notin DOMAIN scratch \cup build_out

\* line 139: dest.exists()
dest_exists(name) == name \in DOMAIN scratch \cup build_out

\* lines 134-145: one entry of the directory, in the order glob yields them.
\* shutil.copy2 of a subdirectory raises IsADirectoryError.
PlaceEntry ==
  /\ pc = "entries"
  /\ \E extra_file \in todo :
       LET extras_dir == extras_dirs[idx].dir
           last       == todo = {extra_file}
           goon       == /\ todo' = todo \ {extra_file}
                         /\ idx' = IF last THEN idx + 1 ELSE idx
                         /\ pc' = IF last THEN "dirloop" ELSE "entries"
       IN  IF extra_file = tex_path
           THEN goon /\ UNCHANGED <<scratch, filenames_seen>>
           ELSE IF dest_exists(extra_file)
           THEN /\ filenames_seen' =
                     Put(filenames_seen, extra_file,
                         IF extra_file \in DOMAIN filenames_seen
                         THEN Append(filenames_seen[extra_file], extras_dir)
                         ELSE <<extras_dir>>)
                /\ goon
                /\ UNCHANGED scratch
           ELSE IF copy_extras
           THEN IF IsSubdir(extra_file)
                THEN /\ pc' = "raised"
                     /\ UNCHANGED <<scratch, filenames_seen, todo, idx>>
                ELSE /\ scratch' = Put(scratch, extra_file,
                                       [dir |-> extras_dir, how |-> "copy"])
                     /\ goon
                     /\ UNCHANGED filenames_seen
           ELSE /\ scratch' = Put(scratch, extra_file,
                                  [dir |-> extras_dir, how |-> "link"])
                /\ goon
                /\ UNCHANGED filenames_seen
  /\ UNCHANGED <<inputs, fs, tex_path, extras_dirs, texdinputs_dirs, tmpdir,
                 made, warnings, jobname, result, build_out, output_pdf,
                 final_pdf, viewer, report>>

\* lines 148-153: one warning per key of filenames_seen, then return
WarnDuplicates ==
  /\ pc = "dirloop"
  /\ idx > Len(extras_dirs)
  /\ warnings' = [warnings EXCEPT !.dup = filenames_seen]
  /\ pc' = "compile"
  /\ UNCHANGED <<inputs, fs, tex_path, extras_dirs, texdinputs_dirs, tmpdir,
                 made, scratch, idx, todo, filenames_seen, jobname, result,
                 build_out, output_pdf, final_pdf, viewer, report>>

\* -------------------------------------------------------- compile_document
\* line 168
job_name(tex_filename) == rsplit1(tex_filename) \o BuildTag

\* lines 168-195 and the caller's lines 263-265.  latexmk writes
\* <jobname>.pdf when it produces a PDF at all.
compile_document ==
  /\ pc = "compile"
  /\ jobname' = job_name(tex_path)
  /\ \/ /\ result' = "completed"
        /\ build_out' \in {{jobname' \o PdfExt}, {}}
        /\ pc' = "post"
        /\ UNCHANGED report
     \/ /\ result' = "timeout"
        /\ report' = report \cup {"LaTeX compilation timed out."}
        /\ pc' = "return"
        /\ UNCHANGED build_out
     \/ /\ result' = "failed"
        /\ report' = report \cup {"LaTeX compilation failed."}
        /\ pc' = "return"
        /\ UNCHANGED build_out
  /\ UNCHANGED <<inputs, fs, tex_path, extras_dirs, texdinputs_dirs, tmpdir,
                 made, scratch, idx, todo, filenames_seen, warnings,
                 output_pdf, final_pdf, viewer>>

\* -------------------------------------------------------- post_process_pdf
\* line 208
expected_pdf(name) == stem(name) \o BuildTag \o PdfExt
\* line 209
final_output(name) == with_suffix(name, PdfExt)

\* lines 208-215 and the caller's lines 268-274
post_process_pdf ==
  /\ pc = "post"
  /\ output_pdf' = expected_pdf(tex_path)
  /\ IF dest_exists(output_pdf')
     THEN /\ fs' = [fs EXCEPT ![DocDir] = @ \cup {final_output(tex_path)}]
          /\ final_pdf' = final_output(tex_path)
          /\ report' = report \cup {"PDF successfully generated"}
          /\ pc' = IF preview THEN "preview" ELSE "cleanup"
     ELSE /\ report' = report \cup {"PDF not generated.", "PDF generation failed."}
          /\ pc' = "cleanup"
          /\ UNCHANGED <<fs, final_pdf>>
  /\ UNCHANGED <<inputs, tex_path, extras_dirs, texdinputs_dirs, tmpdir, made,
                 scratch, idx, todo, filenames_seen, warnings, jobname, result,
                 build_out, viewer>>

\* lines 94-105, called at line 272: the launcher starts, or it is not
\* installed and subprocess.run raises FileNotFoundError
open_pdf ==
  /\ pc = "preview"
  /\ \/ viewer' = TRUE /\ pc' = "cleanup"
     \/ viewer' = FALSE /\ pc' = "raised"
  /\ UNCHANGED <<inputs, fs, tex_path, extras_dirs, texdinputs_dirs, tmpdir,
                 made, scratch, idx, todo, filenames_seen, warnings, jobname,
                 result, build_out, output_pdf, final_pdf, report>>

\* line 277: shutil.rmtree(build_dir, ignore_errors=True)
CleanUp ==
  /\ pc = "cleanup"
  /\ tmpdir' = FALSE
  /\ scratch' = <<>>
  /\ build_out' = {}
  /\ pc' = "done"
  /\ UNCHANGED <<inputs, fs, tex_path, extras_dirs, texdinputs_dirs, made,
                 idx, todo, filenames_seen, warnings, jobname, result,
                 output_pdf, final_pdf, viewer, report>>

Next ==
  \/ ResolveInput
  \/ ComputeExtras
  \/ MakeTmpdir
  \/ NextDir
  \/ PlaceEntry
  \/ WarnDuplicates
  \/ compile_document
  \/ post_process_pdf
  \/ open_pdf
  \/ CleanUp

Spec == Init /\ [][Next]_vars

\* the run is over: returned, or left by an exception
Exited == pc \in {"done", "return", "raised", "input_error"}

TypeOK ==
  /\ pc \in {"start", "input_error", "extras", "mkdtemp", "dirloop", "entries",
             "compile", "post", "preview", "cleanup", "done", "return", "raised"}
  /\ tmpdir \in BOOLEAN /\ made \in BOOLEAN /\ viewer \in BOOLEAN
  /\ result \in {"unset", "completed", "timeout", "failed"}
  /\ idx \in 0..(Len(extras_dirs) + 1)

\* ================================================================== claims
EndsWithTex(name) ==
  Len(name) >= 2 /\ SubSeq(name, Len(name) - 1, Len(name)) = TexExt

IsPdf(name) == Len(name) >= 1 /\ name[Len(name)] = "pdf"

NoSideEffects ==
  /\ ~made /\ ~tmpdir
  /\ scratch = <<>>
  /\ jobname = <<>> /\ result = "unset" /\ build_out = {}
  /\ output_pdf = <<>> /\ final_pdf = <<>>
  /\ \A n \in fs[DocDir] : ~IsPdf(n)
  /\ ~viewer

\* the supporting directories of the effective sequence that hold name
HoldingDirs(name) ==
  { extras_dirs[i].dir : i \in { k \in DOMAIN extras_dirs :
        /\ extras_dirs[k].kind = "Path"
        /\ is_dir(extras_dirs[k].dir)
        /\ name \in Entries(extras_dirs[k].dir) } }

\* the earliest directory of the effective sequence that holds name
FirstDir(name) ==
  LET I == { k \in DOMAIN extras_dirs : extras_dirs[k].dir \in HoldingDirs(name) }
  IN  extras_dirs[CHOOSE k \in I : \A m \in I : k <= m].dir

AllEntryNames == UNION { Entries(d) : d \in Dirs }

\* prepare_build_directory has just returned
Assembled == pc = "compile"

\* no step of the assembly changes what a placed name refers to
KeepsPlaced ==
  pc \in {"dirloop", "entries"} =>
    \A n \in DOMAIN scratch : (n \in DOMAIN scratch' /\ scratch'[n] = scratch[n])

NoOverwrite == [][KeepsPlaced]_vars

\* C1: whenever the scratch directory was created, it no longer exists when
\* run_latex_build has returned or raised.
C1_ScratchRemovedOnExit == (Exited /\ made) => ~tmpdir

\* C2: when the path left by the recovery attempts does not exist or does
\* not end in .tex, the run stops with an input error, and an input error
\* leaves no scratch directory, no link or copy, no compiler run and no
\* artifact.
C2_InputErrorBeforeSideEffects ==
  /\ (pc # "start" /\ (~exists(tex_path) \/ ~EndsWithTex(tex_path)))
        => pc = "input_error"
  /\ pc = "input_error" => NoSideEffects

C2_Witness ==
  /\ pc = "input_error"
  /\ tex_path # tex /\ tex_path # <<>>
  /\ ~exists(tex_path)
  /\ fs[DocDir] # {}
  /\ NoSideEffects

\* C3 as stated: every name held by two or more supporting directories is
\* placed from the earliest of them, and nothing placed is ever replaced.
C3_Original ==
  /\ [](Assembled =>
          \A n \in AllEntryNames :
            Cardinality(HoldingDirs(n)) >= 2 =>
              n \in DOMAIN scratch /\ scratch[n].dir = FirstDir(n))
  /\ NoOverwrite

\* C3 (amended): every name other than the document's own name that is held
\* by two or more supporting directories is placed from the earliest of
\* them; the document's name refers to the document; and no step of the
\* assembly changes what a placed name refers to.
C3_FirstWins ==
  /\ [](Assembled =>
          /\ \A n \in AllEntryNames \ {tex_path} :
               Cardinality(HoldingDirs(n)) >= 2 =>
                 n \in DOMAIN scratch /\ scratch[n].dir = FirstDir(n)
          /\ tex_path \in DOMAIN scratch
          /\ scratch[tex_path] = [dir |-> DocDir, how |-> "link"])
  /\ NoOverwrite

C3_Witness ==
  /\ Assembled
  /\ \E n \in AllEntryNames \ {tex_path} :
       /\ Cardinality(HoldingDirs(n)) >= 2
       /\ FirstDir(n) # DocDir
       /\ scratch[n].dir = FirstDir(n)
  /\ Cardinality(HoldingDirs(tex_path)) >= 2
  /\ FirstDir(tex_path) # DocDir

\* C4: after the assembly there is a warning for every name held by two or
\* more supporting directories, and it names every one of those directories.
\* (Stated for the names other than the document's own, which line 136
\* skips without recording.)
C4_WarningNamesEveryDir ==
  Assembled =>
    \A n \in AllEntryNames \ {tex_path} :
      Cardinality(HoldingDirs(n)) >= 2 =>
        /\ n \in DOMAIN warnings.dup
        /\ Range(warnings.dup[n]) = HoldingDirs(n)

C6_FailureGoesToCleanup ==
  (Exited /\ result \in {"timeout", "failed"}) =>
    /\ pc # "raised"
    /\ ~tmpdir
    /\ output_pdf = <<>>
    /\ final_pdf = <<>>
    /\ \A n \in fs[DocDir] : ~IsPdf(n)
    /\ ~viewer
    /\ report \cap {"LaTeX compilation timed out.", "LaTeX compilation failed."} # {}

\* C7: the effective sequence handed to prepare_build_directory consists of
\* resolved absolute paths, holds no directory twice, holds the document's
\* directory, and holds no search-path directory twice.
C7_EffectiveExtras ==
  pc \notin {"start", "input_error", "extras"} =>
    /\ \A i \in DOMAIN extras_dirs : extras_dirs[i].canon
    /\ \A i, j \in DOMAIN extras_dirs :
         i # j => extras_dirs[i].dir # extras_dirs[j].dir
    /\ DocDir \in {extras_dirs[i].dir : i \in DOMAIN extras_dirs}
    /\ \A i \in DOMAIN texdinputs_dirs :
         texdinputs_dirs[i].dir \in {extras_dirs[k].dir : k \in DOMAIN extras_dirs}

RECURSIVE Descendants(_)
Descendants(d) ==
  Children(d) \cup UNION { Descendants(c) : c \in Children(d) }

\* C8: a single recursive fragment whose base exists yields the base and
\* each directory below it, once each and in resolved absolute form; a
\* fragment whose base does not exist, and empty input, yield nothing.
C8_RecursiveExpansion ==
  pc \notin {"start", "input_error", "extras"} =>
    /\ texdinputs = <<>> => texdinputs_dirs = <<>>
    /\ Len(texdinputs) = 1 =>
         LET f == texdinputs[1] IN
           IF f = EmptyFrag \/ ~is_dir(f.dir) THEN texdinputs_dirs = <<>>
           ELSE f.rec =>
             /\ Len(texdinputs_dirs) = Cardinality(Descendants(f.dir)) + 1
             /\ {texdinputs_dirs[i].dir : i \in DOMAIN texdinputs_dirs}
                  = Descendants(f.dir) \cup {f.dir}
             /\ \A i \in DOMAIN texdinputs_dirs : texdinputs_dirs[i].canon

\* C9: trailing dots are stripped from a name that does not exist; .tex is
\* appended (name + ".tex") to a name that then does not exist and lacks the
\* extension; the document is accepted exactly when the name so obtained
\* exists and has the extension, and that name is the document compiled.
C9_InputResolution ==
  pc # "start" =>
    LET stripped == IF ~exists(tex) /\ endswith_dot(tex)
                    THEN rstrip_dots(tex) ELSE tex
        candidate == IF ~exists(stripped) /\ suffix(stripped) # TexExt
                     THEN stripped \o TexExt ELSE stripped
        accepted  == /\ stripped # <<>>
                     /\ exists(candidate)
                     /\ suffix(candidate) = TexExt
    IN  /\ accepted <=> pc # "input_error"
        /\ accepted => tex_path = candidate

\* C10: the artifact post_process_pdf looks for is the compiler's job name
\* followed by .pdf, and the artifact copied next to the document is the
\* document's name with .tex replaced by .pdf.
C10_ArtifactName ==
  /\ output_pdf # <<>> => output_pdf = jobname \o PdfExt
  /\ final_pdf # <<>> =>
       /\ EndsWithTex(tex_path)
       /\ final_pdf = SubSeq(tex_path, 1, Len(tex_path) - 2) \o PdfExt
       /\ final_pdf \in fs[DocDir]
       /\ result = "completed"

C10_Witness ==
  /\ pc = "done"
  /\ final_pdf # <<>>
  /\ Cardinality({i \in DOMAIN tex_path : tex_path[i] = Dot}) >= 2
  /\ tex_path[1] # Dot
  /\ output_pdf = jobname \o PdfExt
====
